---- MODULE Spec2Model ----
(***************************************************************************)
(* importSchema (import-export-schema/src/entrypoints/ImportPage/          *)
(* importSchema.ts): the run that replicates a schema plan (plugins, item  *)
(* types, fieldsets, fields) on a destination project.                     *)
(*                                                                         *)
(* JavaScript runs one job at a time: a job is the synchronous code that   *)
(* follows the settlement of one remote call, with every promise reaction  *)
(* it triggers.  Each action below is one such job; remote calls in flight *)
(* settle in any order, each successfully or not.                          *)
(***************************************************************************)
EXTENDS Integers, Sequences, FiniteSets, TLC

\* ------------------------------------------------------------------ bounds

\* create calls of a plan: its plugins, item types, fieldsets and fields
MaxCreated == 6
\* item type ids in a validator of the plans of SpecFields
MaxList == 2
\* addons of a field of the plans of SpecInputs
MaxAddons == 2

\* ------------------------------------------------------------ JS values

Undefined == "undefined"
Null == "null"

\* the values JavaScript's || treats as false, by name
Falsy == {"undefined", "null", "false", "0", "''"}

Range(s) == {s[i] : i \in DOMAIN s}

\* Map.has, Map.get, Map.set
Has(m, k) == k \in DOMAIN m
Get(m, k) == IF k \in DOMAIN m THEN m[k] ELSE Undefined
MapSet(m, k, v) == (k :> v) @@ m
EmptyMap == [k \in {} |-> Undefined]

\* lodash pick and omit on an object given as a function of its keys
Pick(obj, keys) == [k \in DOMAIN obj \cap keys |-> obj[k]]
Omit(obj, keys) == [k \in DOMAIN obj \ keys |-> obj[k]]

\* ------------------------------------------------- external collaborators

\* generateId of @datocms/cma-client: the n-th identifier of a run of a
\* collision-free generator
generateId(n) == "g" \o ToString(n)

\* utils/datocms/schema: validators that hold item type ids, by field type
validatorsContainingLinks ==
  << [field_type |-> "link", validator |-> "item_item_type"],
     [field_type |-> "links", validator |-> "items_item_type"],
     [field_type |-> "structured_text", validator |-> "structured_text_links"] >>

validatorsContainingBlocks ==
  << [field_type |-> "rich_text", validator |-> "rich_text_blocks"],
     [field_type |-> "structured_text", validator |-> "structured_text_blocks"],
     [field_type |-> "single_block", validator |-> "single_block_blocks"] >>

\* utils/datocms/fieldTypeInfo: the editors that are not plugins
HardcodedEditors == {"single_line", "link_select", "links_select", "slug",
                     "structured_text", "rich_text", "framed_single_block"}

isHardcodedEditor(editor) == editor \in HardcodedEditors

DefaultEditor(field_type) ==
  CASE field_type = "string" -> "single_line"
    [] field_type = "link" -> "link_select"
    [] field_type = "links" -> "links_select"
    [] field_type = "slug" -> "slug"
    [] field_type = "structured_text" -> "structured_text"
    [] field_type = "rich_text" -> "rich_text"
    [] OTHER -> "framed_single_block"

defaultAppearanceForFieldType(field_type) ==
  [editor |-> DefaultEditor(field_type), parameters |-> "default", addons |-> <<>>]

\* ------------------------------------------------------ identifier tables

\* one identifier generated before the loop and set for every entry
AllocateAllOneId(table, ids, n) ==
  [id \in Range(ids) |-> generateId(n)] @@ table

RECURSIVE AllocateAll(_, _, _)
\* for (const x of xs) table.set(x.id, generateId()), n identifiers drawn so far
AllocateAll(table, ids, n) ==
  IF ids = <<>> THEN table
  ELSE AllocateAll(MapSet(table, Head(ids), generateId(n)), Tail(ids), n + 1)

Ids(entities) == [i \in DOMAIN entities |-> entities[i].id]

RECURSIVE AllocateItemTypes(_, _, _)
\* the loop over itemTypes.entitiesToCreate: the item type, its fields, its fieldsets
AllocateItemTypes(t, toCreate, n) ==
  IF toCreate = <<>> THEN [tables |-> t, n |-> n]
  ELSE LET it == Head(toCreate)
           nf == Len(it.fields)
           t1 == [t EXCEPT !.itemType = MapSet(@, it.entity.id, generateId(n))]
           t2 == [t1 EXCEPT !.field = AllocateAll(@, Ids(it.fields), n + 1)]
           t3 == [t2 EXCEPT !.fieldset = AllocateAll(@, Ids(it.fieldsets), n + 1 + nf)]
       IN AllocateItemTypes(t3, Tail(toCreate), n + 1 + nf + Len(it.fieldsets))

\* for (const [exportId, projectId] of Object.entries(idsToReuse)) table.set(...)
SetReused(table, idsToReuse) == idsToReuse @@ table

\* the four tables as importSchema builds them before its first create call
BuildMappings(importDoc) ==
  LET empty == [itemType |-> EmptyMap, field |-> EmptyMap,
                fieldset |-> EmptyMap, plugin |-> EmptyMap]
      a == AllocateItemTypes(empty, importDoc.itemTypes.entitiesToCreate, 1)
      t1 == [a.tables EXCEPT !.itemType = SetReused(@, importDoc.itemTypes.idsToReuse)]
      t2 == [t1 EXCEPT !.plugin =
               AllocateAll(@, Ids(importDoc.plugins.entitiesToCreate), a.n)]
  IN [t2 EXCEPT !.plugin = SetReused(@, importDoc.plugins.idsToReuse)]

\* ------------------------------------------------------------ importField

\* the validators of importField that apply to a field type, links first
ApplicableValidators(field_type) ==
  LET applies(i) == i.field_type = field_type
      both == SelectSeq(validatorsContainingLinks, applies)
              \o SelectSeq(validatorsContainingBlocks, applies)
  IN [i \in DOMAIN both |-> both[i].validator]

\* newIds without the has() test: what get() returns for every id read
ResolveIdsUnchecked(ids, itemTypeIdMappings) ==
  [k \in DOMAIN ids |-> Get(itemTypeIdMappings, ids[k])]

RECURSIVE ResolveIds(_, _)
\* newIds: the ids the item type table has, mapped, in the order read
ResolveIds(ids, itemTypeIdMappings) ==
  IF ids = <<>> THEN <<>>
  ELSE (IF Has(itemTypeIdMappings, Head(ids))
        THEN <<itemTypeIdMappings[Head(ids)]>> ELSE <<>>)
       \o ResolveIds(Tail(ids), itemTypeIdMappings)

RECURSIVE RewriteValidators(_, _, _)
\* for (const validator of validators) set(data.attributes.validators, validator, newIds)
RewriteValidators(validators, names, itemTypeIdMappings) ==
  IF names = <<>> THEN validators
  ELSE RewriteValidators(
         [validators EXCEPT ![Head(names)] = ResolveIds(@, itemTypeIdMappings)],
         Tail(names), itemTypeIdMappings)

\* validators.slug_title_field = { title_field_id: fieldIdMappings.get(...)! }
RewriteSlugTitle(validators, fieldIdMappings) ==
  IF "slug_title_field" \in DOMAIN validators
  THEN [validators EXCEPT !["slug_title_field"] = Get(fieldIdMappings, @)]
  ELSE validators

\* appeareance cleared; a plugin editor mapped, or the appearance replaced
RewriteAppearance(attributes, pluginIdMappings) ==
  LET a == [attributes EXCEPT !.appeareance = Undefined]
      editor == a.appearance.editor
  IN IF isHardcodedEditor(editor) THEN a
     ELSE IF Has(pluginIdMappings, editor)
          THEN [a EXCEPT !.appearance.editor = pluginIdMappings[editor]]
          ELSE [a EXCEPT !.appearance = defaultAppearanceForFieldType(a.field_type)]

\* the default of a localized field keeps the entries of the source
RewriteDefaultValueSourceKeys(attributes, locales) ==
  IF attributes.localized
  THEN [attributes EXCEPT !.default_value =
          [locale \in DOMAIN @ |-> IF @[locale] \in Falsy THEN Null ELSE @[locale]]]
  ELSE attributes

\* default_value of a localized field rebuilt over the destination locales
RewriteDefaultValue(attributes, locales) ==
  IF attributes.localized
  THEN LET oldDefaultValues == attributes.default_value
       IN [attributes EXCEPT !.default_value =
             [locale \in Range(locales) |->
                IF locale \in DOMAIN oldDefaultValues
                   /\ oldDefaultValues[locale] \notin Falsy
                THEN oldDefaultValues[locale] ELSE Null]]
  ELSE attributes

\* appearance.addons = field.attributes.appearance.addons.filter(...).map(...)
RewriteAddons(attributes, pluginIdMappings) ==
  LET addons == attributes.appearance.addons
      known(addon) == Has(pluginIdMappings, addon.id)
      kept == SelectSeq(addons, known)
  IN [attributes EXCEPT !.appearance.addons =
        [i \in DOMAIN kept |-> [kept[i] EXCEPT !.id = pluginIdMappings[@]]]]

\* data.attributes is field.attributes itself ({...field} copies one level):
\* the attributes object importField leaves behind, in the payload and in the plan
RewriteAttributes(field, locales, m) ==
  LET a0 == field.attributes
      a1 == [a0 EXCEPT !.validators =
               RewriteValidators(@, ApplicableValidators(a0.field_type), m.itemType)]
      a2 == [a1 EXCEPT !.validators = RewriteSlugTitle(@, m.field)]
      a3 == RewriteAppearance(a2, m.plugin)
      a4 == RewriteDefaultValue(a3, locales)
  IN RewriteAddons(a4, m.plugin)

\* the arguments of client.fields.rawCreate
FieldPayload(field, locales, m) ==
  [itemTypeId |-> Get(m.itemType, field.item_type),
   data |-> [id |-> Get(m.field, field.id),
             type |-> "field",
             fieldset |-> IF field.fieldset # Null
                          THEN Get(m.fieldset, field.fieldset) ELSE Null,
             attributes |-> RewriteAttributes(field, locales, m)]]

\* ----------------------------------------------------------------- plans

\* a plugin of plugins.entitiesToCreate
Plugin(i, package_name, version, parameters) ==
  [id |-> "p" \o ToString(i),
   attributes |-> [name |-> "plugin", url |-> "https://plugin", package_name |-> package_name,
                   parameter_definitions |-> "defs", field_types |-> "types",
                   plugin_type |-> "field_editor", parameters |-> parameters],
   meta |-> [version |-> version]]

ItemTypeId(i) == "it" \o ToString(i)
FieldsetId(i, k) == "s" \o ToString(i) \o "_" \o ToString(k)
FieldId(i, j) == "f" \o ToString(i) \o "_" \o ToString(j)

\* an item type to create that carries no rename
NoRename == [k \in {} |-> Undefined]

\* a fieldset of item type i
Fieldset(i, k, position) ==
  [id |-> FieldsetId(i, k), type |-> "fieldset",
   attributes |-> [title |-> "group", position |-> position],
   relationships |-> [item_type |-> ItemTypeId(i)]]

\* a field of item type i
Field(i, j, fieldset, attributes) ==
  [id |-> FieldId(i, j), type |-> "field", item_type |-> ItemTypeId(i),
   fieldset |-> fieldset, attributes |-> attributes]

Addon(id) == [id |-> id, parameters |-> "{}"]

\* a link field edited by plugin p1, with addons of plugins in and out of the plan
LinkAttributes(position) ==
  [field_type |-> "link", position |-> position, localized |-> FALSE,
   default_value |-> Null, appeareance |-> "legacy",
   validators |-> [item_item_type |-> <<"it2", "itX", "itR", "it1">>],
   appearance |-> [editor |-> "p1", parameters |-> "{}",
                   addons |-> <<Addon("p2"), Addon("pX"), Addon("pR")>>]]

\* a slug field; title is the sibling its slug_title_field names, if any
SlugAttributes(position, title) ==
  [field_type |-> "slug", position |-> position, localized |-> FALSE,
   default_value |-> Null, appeareance |-> "legacy",
   validators |-> IF title = Null THEN [required |-> "{}"]
                  ELSE [required |-> "{}", slug_title_field |-> title],
   appearance |-> [editor |-> "slug", parameters |-> "{}", addons |-> <<>>]]

\* an entry of itemTypes.entitiesToCreate
ItemTypeWith(i, fieldsets, fields) ==
  [entity |-> [id |-> ItemTypeId(i),
               attributes |-> [name |-> "Article", api_key |-> "article",
                               has_singleton_item |-> FALSE]],
   rename |-> IF i = 1 THEN [name |-> "News", apiKey |-> "news"] ELSE NoRename,
   fieldsets |-> fieldsets,
   fields |-> fields]

\* item type i with nfs fieldsets and one field per entry of kinds; the fields
\* sit in the first fieldset and their positions run against the array order
ItemType(i, nfs, kinds) ==
  LET nf == Len(kinds)
      nonSlug == {j \in 1..nf : kinds[j] # "slug"}
      title == IF nonSlug = {} THEN Null
               ELSE FieldId(i, CHOOSE j \in nonSlug : \A h \in nonSlug : j <= h)
      fieldset == IF nfs > 0 THEN FieldsetId(i, 1) ELSE Null
  IN ItemTypeWith(i, [k \in 1..nfs |-> Fieldset(i, k, k)],
                  [j \in 1..nf |->
                     Field(i, j, fieldset,
                           IF kinds[j] = "slug" THEN SlugAttributes(nf - j + 1, title)
                           ELSE LinkAttributes(nf - j + 1))])

\* plugins p1..pn to create: one from a package, one legacy, every other one
\* with parameters
PluginsOf(n) ==
  [i \in 1..n |-> Plugin(i, IF i = 1 THEN "pkg" ELSE Null, IF i = 2 THEN "2" ELSE "1",
                         IF i % 2 = 1 THEN {"apiKey"} ELSE {})]

ImportDoc(plugins, itemTypes) ==
  [plugins |-> [entitiesToCreate |-> plugins, idsToReuse |-> ("pR" :> "dstP")],
   itemTypes |-> [entitiesToCreate |-> itemTypes, idsToReuse |-> ("itR" :> "dstI")]]

SeqsUpTo(S, n) == UNION {[1..k -> S] : k \in 0..n}

\* what an item type holds: some fieldsets, then link and slug fields in any order
ShapesUpTo(n) ==
  {sh \in [nfs : 0..n, kinds : SeqsUpTo({"link", "slug"}, n)] : sh.nfs + Len(sh.kinds) <= n}

RECURSIVE ItemTypeShapes(_)
\* the lists of item types whose create calls number at most budget
ItemTypeShapes(budget) ==
  {<<>>} \cup
  UNION {{<<sh>> \o rest : rest \in ItemTypeShapes(budget - 1 - sh.nfs - Len(sh.kinds))} :
           sh \in ShapesUpTo(budget - 1)}

\* the plans of the runs: every plan of at most MaxCreated create calls
Plans ==
  UNION {{ImportDoc(PluginsOf(np),
                    [i \in DOMAIN shapes |-> ItemType(i, shapes[i].nfs, shapes[i].kinds)]) :
            shapes \in ItemTypeShapes(MaxCreated - np)} : np \in 0..MaxCreated}

\* the validators of a field of the given type, once a list is chosen for each
\* validator that holds item type ids
ValidatorsOf(field_type) ==
  LET names == Range(ApplicableValidators(field_type))
  IN {lists @@ [required |-> "{}"] :
        lists \in [names -> SeqsUpTo({"it1", "itR", "itX"}, MaxList)]}

FieldTypes == {"link", "links", "structured_text", "rich_text", "single_block", "string"}

\* the attributes of the one field of a plan of SpecFields
FieldVariants ==
  UNION {{[field_type |-> ft, position |-> 1, localized |-> FALSE, default_value |-> Null,
           appeareance |-> "legacy", validators |-> v,
           appearance |-> [editor |-> DefaultEditor(ft), parameters |-> "{}",
                           addons |-> <<>>]] : v \in ValidatorsOf(ft)} : ft \in FieldTypes}

\* the plan of one plugin and one item type with one fieldset and one field
FieldPlan(attributes) ==
  ImportDoc(PluginsOf(1),
            <<ItemTypeWith(1, <<Fieldset(1, 1, 2)>>,
                           <<Field(1, 1, FieldsetId(1, 1), attributes)>>)>>)

\* a string field, the attributes importField rewrites set apart
StringAttributes(localized, default_value, editor, addons) ==
  [field_type |-> "string", position |-> 1, localized |-> localized,
   default_value |-> default_value, appeareance |-> "legacy",
   validators |-> [required |-> "{}"],
   appearance |-> [editor |-> editor, parameters |-> "{}", addons |-> addons]]

\* the values of a default, by name: a string, and what || takes for false
DefaultValues == {"hello", "false", "0", "''", "null"}

\* the locales a source default may have entries for
SourceLocales == {"en", "it"}

\* the locale lists client.site.find() may answer with
SiteLocales == {<<"en">>, <<"en", "it">>, <<"it", "fr">>}

\* localized fields, their default over any set of source locales
LocalizedVariants ==
  UNION {{StringAttributes(TRUE, default_value, "single_line", <<>>) :
            default_value \in [keys -> DefaultValues]} : keys \in SUBSET SourceLocales}

\* fields by editor and addons: built in, created (p1), reused (pR), outside (pX)
AppearanceVariants ==
  {StringAttributes(FALSE, Null, editor, [k \in DOMAIN ids |-> Addon(ids[k])]) :
     editor \in {"single_line", "p1", "pR", "pX"},
     ids \in SeqsUpTo({"p1", "pR", "pX"}, MaxAddons)}

\* slug fields without a title field, and with one that no plan entity is
SlugVariants == {SlugAttributes(1, Null), SlugAttributes(1, "fX")}

\* plugins by package, version and parameters
PluginVariants ==
  {Plugin(1, package_name, version, parameters) :
     package_name \in {Null, "''", "pkg"}, version \in {"1", "2"},
     parameters \in {{}, {"apiKey"}}}

\* the plan of FieldPlan around one plugin to create
PluginPlan(plugin) ==
  ImportDoc(<<plugin>>,
            <<ItemTypeWith(1, <<Fieldset(1, 1, 2)>>,
                           <<Field(1, 1, FieldsetId(1, 1),
                                   StringAttributes(FALSE, Null, "single_line", <<>>))>>)>>)

\* plans of one field or one plugin with the destination they are imported to
InputCases ==
  {[doc |-> FieldPlan(a), site |-> l] : a \in LocalizedVariants, l \in SiteLocales}
  \cup {[doc |-> FieldPlan(a), site |-> <<"en">>] : a \in AppearanceVariants \cup SlugVariants}
  \cup {[doc |-> PluginPlan(p), site |-> <<"en">>] : p \in PluginVariants}

\* ------------------------------------------------------------------ state

VARIABLES
  sourceDoc,     \* the plan as importSchema received it
  importDoc,     \* the plan; importField writes into the attributes of its fields
  site,          \* the locales of the destination project
  pc,            \* where importSchema itself waits, or how it ended
  subscription,  \* "none", "open" or "closed": the events subscription
  locales,       \* what client.site.find() returned
  mappings,      \* the four identifier tables
  call,          \* per tracked operation: idle, create, update, done, failed
  itemPc,        \* per item type: where its function of the fields phase waits
  cursor,        \* per item type: the entity its reorder loop is updating
  total,
  finished,
  emitted,       \* the pairs passed to updateProgress by the last job, in order
  sent,          \* per tracked operation: the requests issued for it, in order
  firstFailure,  \* the first remote call that failed
  rejection,     \* what importSchema rejected with
  swallowed      \* the plugins whose parameters update failed

vars == <<sourceDoc, importDoc, site, pc, subscription, locales, mappings, call, itemPc, cursor,
          total, finished, emitted, sent, firstFailure, rejection, swallowed>>

ReorderOp(i) == "reorder" \o ToString(i)

PluginOps(doc) == Range(Ids(doc.plugins.entitiesToCreate))
ItemTypeOps(doc) == {doc.itemTypes.entitiesToCreate[i].entity.id :
                       i \in DOMAIN doc.itemTypes.entitiesToCreate}
FieldsetOps(doc) == UNION {Range(Ids(doc.itemTypes.entitiesToCreate[i].fieldsets)) :
                             i \in DOMAIN doc.itemTypes.entitiesToCreate}
FieldOps(doc) == UNION {Range(Ids(doc.itemTypes.entitiesToCreate[i].fields)) :
                          i \in DOMAIN doc.itemTypes.entitiesToCreate}
ReorderOps(doc) == {ReorderOp(i) : i \in DOMAIN doc.itemTypes.entitiesToCreate}
Ops(doc) == PluginOps(doc) \cup ItemTypeOps(doc) \cup FieldsetOps(doc)
            \cup FieldOps(doc) \cup ReorderOps(doc)

\* the state importSchema is called in: nothing awaited yet has settled
InitWith(doc, destinationLocales) ==
  /\ sourceDoc = doc
  /\ importDoc = doc
  /\ site = destinationLocales
  /\ pc = "subscribe"
  /\ subscription = "none"
  /\ locales = <<>>
  /\ mappings = [itemType |-> EmptyMap, field |-> EmptyMap,
                 fieldset |-> EmptyMap, plugin |-> EmptyMap]
  /\ call = [op \in Ops(doc) |-> "idle"]
  /\ itemPc = [i \in DOMAIN doc.itemTypes.entitiesToCreate |-> "idle"]
  /\ cursor = [i \in DOMAIN doc.itemTypes.entitiesToCreate |-> 0]
  /\ total = 0
  /\ finished = 0
  /\ emitted = <<>>
  /\ sent = [op \in Ops(doc) |-> <<>>]
  /\ firstFailure = Null
  /\ rejection = Null
  /\ swallowed = {}

Init == \E doc \in Plans : InitWith(doc, <<"en">>)

\* importSchema called on a plan of one field, over the fields a plan can hold
InitFields == \E attributes \in FieldVariants : InitWith(FieldPlan(attributes), <<"en">>)

\* importSchema called on a plan of InputCases, its destination alongside
InitInputs == \E input \in InputCases : InitWith(input.doc, input.site)

\* the state a job starts from, and the state it leaves
Cur ==
  [importDoc |-> importDoc, pc |-> pc, subscription |-> subscription,
   locales |-> locales, mappings |-> mappings, call |-> call, itemPc |-> itemPc,
   cursor |-> cursor, total |-> total, finished |-> finished, emitted |-> <<>>,
   sent |-> sent, firstFailure |-> firstFailure, rejection |-> rejection,
   swallowed |-> swallowed]

Commit(s) ==
  /\ importDoc' = s.importDoc
  /\ pc' = s.pc
  /\ subscription' = s.subscription
  /\ locales' = s.locales
  /\ mappings' = s.mappings
  /\ call' = s.call
  /\ itemPc' = s.itemPc
  /\ cursor' = s.cursor
  /\ total' = s.total
  /\ finished' = s.finished
  /\ emitted' = s.emitted
  /\ sent' = s.sent
  /\ firstFailure' = s.firstFailure
  /\ rejection' = s.rejection
  /\ swallowed' = s.swallowed
  /\ UNCHANGED <<sourceDoc, site>>

RECURSIVE ForEach(_, _, _)
\* xs.map(f) or for (const x of xs) f(x): f applied along xs, state threaded
ForEach(F(_, _), s, xs) ==
  IF xs = <<>> THEN s ELSE ForEach(F, F(s, Head(xs)), Tail(xs))

Indices(xs) == [i \in DOMAIN xs |-> i]

\* ------------------------------------------------------------------ track

\* total += 1; updateProgress({ total, finished })
TrackBegin(s) ==
  LET t == [s EXCEPT !.total = @ + 1]
  IN [t EXCEPT !.emitted = Append(@, <<t.total, t.finished>>)]

\* finally { finished += 1; updateProgress({ total, finished }) }
TrackEnd(s) ==
  LET t == [s EXCEPT !.finished = @ + 1]
  IN [t EXCEPT !.emitted = Append(@, <<t.total, t.finished>>)]

\* a remote call goes out and is sent again
IssueTwice(s, op, status, request) ==
  [s EXCEPT !.call[op] = status, !.sent[op] = Append(Append(@, request), request)]

\* a remote call goes out for a tracked operation
Issue(s, op, status, request) ==
  [s EXCEPT !.call[op] = status, !.sent[op] = Append(@, request)]

\* a tracked operation ends without an error
Settle(s, op) == [TrackEnd(s) EXCEPT !.call[op] = "done"]

\* finished is counted after the await, not in a finally
FailUncounted(s, op) ==
  [s EXCEPT !.call[op] = "failed", !.firstFailure = IF @ = Null THEN op ELSE @]

\* a remote call of a tracked operation fails and nothing catches it
Fail(s, op) ==
  [TrackEnd(s) EXCEPT !.call[op] = "failed",
                      !.firstFailure = IF @ = Null THEN op ELSE @]

\* a promise importSchema awaits rejects: importSchema rejects, once
Reject(s, reason) ==
  IF s.pc \in {"resolved", "rejected"} THEN s
  ELSE [s EXCEPT !.pc = "rejected", !.rejection = reason]

AllDone(s, ops) == \A op \in ops : s.call[op] = "done"

\* ---------------------------------------------------------------- reorder

\* what compareAscending sees for an iteratee that names a property: an object
\* compares as "[object Object]", a property the entity lacks is undefined
Criterion(entity, iteratee) ==
  IF iteratee \notin DOMAIN entity THEN Undefined
  ELSE IF iteratee \in {"attributes", "relationships"} THEN "[object Object]"
  ELSE entity[iteratee]

\* compareAscending(value, other) < 0 for these: undefined sorts last
Ascending(value, other) == value # Undefined /\ other = Undefined

\* compareMultiple < 0 before it falls back on the index
EntityBefore(a, b, iteratees) ==
  \E k \in DOMAIN iteratees :
    /\ Ascending(Criterion(a, iteratees[k]), Criterion(b, iteratees[k]))
    /\ \A h \in 1..(k - 1) :
         /\ ~Ascending(Criterion(a, iteratees[h]), Criterion(b, iteratees[h]))
         /\ ~Ascending(Criterion(b, iteratees[h]), Criterion(a, iteratees[h]))

RECURSIVE InsertStable(_, _, _)
InsertStable(sorted, e, iteratees) ==
  IF sorted = <<>> THEN <<e>>
  ELSE IF EntityBefore(e, Head(sorted), iteratees) THEN <<e>> \o sorted
  ELSE <<Head(sorted)>> \o InsertStable(Tail(sorted), e, iteratees)

RECURSIVE sortBy(_, _)
\* lodash sortBy(collection, iteratees): stable, one iteratee per array entry
sortBy(collection, iteratees) ==
  IF collection = <<>> THEN <<>>
  ELSE InsertStable(sortBy(SubSeq(collection, 1, Len(collection) - 1), iteratees),
                    collection[Len(collection)], iteratees)

\* sortBy(allEntities, ['attributes', 'position']) of an item type to create
ReorderList(toCreate) ==
  sortBy(toCreate.fieldsets \o toCreate.fields, <<"attributes", "position">>)

\* client.fieldsets.update or client.fields.update of the entity's position
PositionUpdate(entity, m) ==
  IF entity.type = "fieldset"
  THEN [call |-> "fieldsets.update", id |-> Get(m.fieldset, entity.id),
        position |-> entity.attributes.position]
  ELSE [call |-> "fields.update", id |-> Get(m.field, entity.id),
        position |-> entity.attributes.position]

\* unsubscribe(); importSchema returns
Finish(s) == [s EXCEPT !.subscription = "closed", !.pc = "resolved"]

\* the await of the reorder group resumes once every loop has ended
ReorderSettled(s) ==
  IF s.pc = "reorder" /\ AllDone(s, ReorderOps(s.importDoc)) THEN Finish(s) ELSE s

\* the position updates of item type i go out together, none awaited
StartReorderOfAllAtOnce(s, i) ==
  LET list == ReorderList(s.importDoc.itemTypes.entitiesToCreate[i])
      F(t, k) == Issue(t, ReorderOp(i), "update", PositionUpdate(list[k], s.mappings))
  IN IF Len(list) <= 1 THEN [TrackBegin(s) EXCEPT !.call[ReorderOp(i)] = "returned"]
     ELSE [ForEach(F, TrackBegin(s), Indices(list)) EXCEPT !.cursor[i] = 1]

\* the tracked reorder function of item type i, up to its first await
StartReorderOf(s, i) ==
  LET list == ReorderList(s.importDoc.itemTypes.entitiesToCreate[i])
  IN IF Len(list) <= 1 THEN [TrackBegin(s) EXCEPT !.call[ReorderOp(i)] = "returned"]
     ELSE [Issue(TrackBegin(s), ReorderOp(i), "update", PositionUpdate(list[1], s.mappings))
             EXCEPT !.cursor[i] = 1]

\* the finally of a reorder function that returned at once
EndReturnedReorder(s, i) ==
  IF s.call[ReorderOp(i)] = "returned" THEN Settle(s, ReorderOp(i)) ELSE s

\* Reorder fields and fieldsets
StartReorder(s) ==
  LET all == Indices(s.importDoc.itemTypes.entitiesToCreate)
      s1 == ForEach(StartReorderOf, [s EXCEPT !.pc = "reorder"], all)
  IN ReorderSettled(ForEach(EndReturnedReorder, s1, all))

\* ------------------------------------------------- fields and fieldsets

ToCreate(s, i) == s.importDoc.itemTypes.entitiesToCreate[i]

\* the indices of the fields a filter of the fields phase keeps, in order
FieldsWhere(toCreate, slug) ==
  LET keep(j) == (toCreate.fields[j].attributes.field_type = "slug") = slug
  IN SelectSeq(Indices(toCreate.fields), keep)

\* the id of a fieldset is generated and recorded when its create call goes out
ScheduleFieldsetAllocating(s, i, k) ==
  LET fieldset == ToCreate(s, i).fieldsets[k]
      t == [s EXCEPT !.mappings.fieldset = MapSet(@, fieldset.id, generateId(0))]
      data == [Omit(fieldset, {"relationships"}) EXCEPT
                 !["id"] = Get(t.mappings.fieldset, fieldset.id)]
  IN Issue(TrackBegin(t), fieldset.id, "create",
           [call |-> "fieldsets.rawCreate",
            itemTypeId |-> Get(t.mappings.itemType, ToCreate(t, i).entity.id),
            data |-> data])

\* the tracked fieldset function: the payload without relationships, then rawCreate
ScheduleFieldset(s, i, k) ==
  LET fieldset == ToCreate(s, i).fieldsets[k]
      data == [Omit(fieldset, {"relationships"}) EXCEPT
                 !["id"] = Get(s.mappings.fieldset, fieldset.id)]
  IN Issue(TrackBegin(s), fieldset.id, "create",
           [call |-> "fieldsets.rawCreate",
            itemTypeId |-> Get(s.mappings.itemType, ToCreate(s, i).entity.id),
            data |-> data])

\* track(importField) of field j: the payload is built in the plan's own
\* attributes object, then rawCreate goes out
ScheduleField(s, i, j) ==
  LET field == ToCreate(s, i).fields[j]
      payload == FieldPayload(field, s.locales, s.mappings)
      s1 == [TrackBegin(s) EXCEPT
               !.importDoc.itemTypes.entitiesToCreate[i].fields[j].attributes =
                  payload.data.attributes]
  IN Issue(s1, field.id, "create",
           [call |-> "fields.rawCreate", itemTypeId |-> payload.itemTypeId,
            data |-> payload.data])

\* the function of item type i up to its first await
StartFieldsOf(s, i) ==
  LET F(t, k) == ScheduleFieldset(t, i, k)
  IN ForEach(F, [s EXCEPT !.itemPc[i] = "fieldsets"], Indices(ToCreate(s, i).fieldsets))

\* the non-slug fields go out without the await of the fieldsets
StepFieldsetsEager(s, i) ==
  LET F(t, j) == ScheduleField(t, i, j)
  IN IF s.itemPc[i] = "fieldsets"
     THEN ForEach(F, [s EXCEPT !.itemPc[i] = "nonSlug"], FieldsWhere(ToCreate(s, i), FALSE))
     ELSE s

\* await Promise.all(fieldsets...) resumes: the non-slug fields go out
StepFieldsets(s, i) ==
  LET F(t, j) == ScheduleField(t, i, j)
  IN IF s.itemPc[i] = "fieldsets" /\ AllDone(s, Range(Ids(ToCreate(s, i).fieldsets)))
     THEN ForEach(F, [s EXCEPT !.itemPc[i] = "nonSlug"], FieldsWhere(ToCreate(s, i), FALSE))
     ELSE s

\* the slug fields go out in the group of the non-slug fields
StepNonSlugEager(s, i) ==
  LET F(t, j) == ScheduleField(t, i, j)
  IN IF s.itemPc[i] = "nonSlug"
     THEN ForEach(F, [s EXCEPT !.itemPc[i] = "slug"], FieldsWhere(ToCreate(s, i), TRUE))
     ELSE s

\* await Promise.all(nonSlugFields...) resumes: the slug fields go out
StepNonSlug(s, i) ==
  LET F(t, j) == ScheduleField(t, i, j)
      nonSlug == FieldsWhere(ToCreate(s, i), FALSE)
  IN IF s.itemPc[i] = "nonSlug"
        /\ AllDone(s, {ToCreate(s, i).fields[j].id : j \in Range(nonSlug)})
     THEN ForEach(F, [s EXCEPT !.itemPc[i] = "slug"], FieldsWhere(ToCreate(s, i), TRUE))
     ELSE s

\* await Promise.all(slugFields...) resumes: the function of the item type returns
StepSlug(s, i) ==
  LET slug == FieldsWhere(ToCreate(s, i), TRUE)
  IN IF s.itemPc[i] = "slug"
        /\ AllDone(s, {ToCreate(s, i).fields[j].id : j \in Range(slug)})
     THEN [s EXCEPT !.itemPc[i] = "done"]
     ELSE s

\* the function of item type i runs on as far as its awaits let it
AdvanceItem(s, i) == StepSlug(StepNonSlug(StepFieldsets(s, i), i), i)

\* the fields phase waits for its functions to settle, whatever their outcome
FieldsSettledAnyOutcome(s) ==
  IF s.pc \in {"fields", "rejected"}
     /\ \A i \in DOMAIN s.itemPc : s.itemPc[i] \in {"done", "failed"}
     /\ \A op \in ReorderOps(s.importDoc) : s.call[op] = "idle"
  THEN StartReorder(s) ELSE s

\* the await of the fields phase resumes once every item type's function returned
FieldsSettled(s) ==
  IF s.pc = "fields" /\ \A i \in DOMAIN s.itemPc : s.itemPc[i] = "done"
  THEN StartReorder(s) ELSE s

\* Create fields and fieldsets
StartFields(s) ==
  LET all == Indices(s.importDoc.itemTypes.entitiesToCreate)
      s1 == ForEach(StartFieldsOf, [s EXCEPT !.pc = "fields"], all)
  IN FieldsSettled(ForEach(AdvanceItem, s1, all))

\* a rawCreate of a fieldset or a field of item type i resolves
OnEntityCreated(s, i, op) == FieldsSettled(AdvanceItem(Settle(s, op), i))

\* the rejection of a create call cancels the calls of item type i in flight
OnEntityFailedCancelling(s, i, op) ==
  LET siblings == Range(Ids(ToCreate(s, i).fieldsets)) \cup Range(Ids(ToCreate(s, i).fields))
      t == [Fail(s, op) EXCEPT !.itemPc[i] = "failed"]
  IN Reject([t EXCEPT !.call = [o \in DOMAIN @ |->
                                  IF o \in siblings /\ @[o] = "create"
                                  THEN "cancelled" ELSE @[o]]], op)

\* a rawCreate of a fieldset or a field of item type i rejects: its group, the
\* function of its item type and the fields phase reject with it
OnEntityFailed(s, i, op) == Reject([Fail(s, op) EXCEPT !.itemPc[i] = "failed"], op)

\* -------------------------------------------------------------- item types

\* the itemTypes.rawCreate request of an item type to create
ItemTypeRequest(toCreate, m) ==
  LET attributes == Omit(toCreate.entity.attributes, {"has_singleton_item"})
  IN [call |-> "itemTypes.rawCreate",
      data |-> [type |-> "item_type", id |-> Get(m.itemType, toCreate.entity.id),
                attributes |-> IF toCreate.rename # NoRename
                               THEN ("name" :> toCreate.rename.name)
                                    @@ ("api_key" :> toCreate.rename.apiKey)
                                    @@ attributes
                               ELSE attributes]]

ScheduleItemType(s, toCreate) ==
  Issue(TrackBegin(s), toCreate.entity.id, "create", ItemTypeRequest(toCreate, s.mappings))

ItemTypesSettled(s) ==
  IF s.pc = "itemTypes" /\ AllDone(s, ItemTypeOps(s.importDoc))
  THEN StartFields(s) ELSE s

\* Create new item types
StartItemTypes(s) ==
  ItemTypesSettled(ForEach(ScheduleItemType, [s EXCEPT !.pc = "itemTypes"],
                           s.importDoc.itemTypes.entitiesToCreate))

OnItemTypeCreated(s, op) == ItemTypesSettled(Settle(s, op))

OnItemTypeFailed(s, op) == Reject(Fail(s, op), op)

\* ----------------------------------------------------------------- plugins

\* the create payload leaves out the same four attributes for every plugin
PluginRequestUnversioned(plugin, m) ==
  [call |-> "plugins.rawCreate",
   data |-> [type |-> "plugin", id |-> Get(m.plugin, plugin.id),
             attributes |-> Omit(plugin.attributes,
                                 {"parameter_definitions", "field_types",
                                  "plugin_type", "parameters"})]]

\* the plugins.rawCreate request of a plugin to create
PluginRequest(plugin, m) ==
  [call |-> "plugins.rawCreate",
   data |-> [type |-> "plugin", id |-> Get(m.plugin, plugin.id),
             attributes |->
               IF plugin.attributes.package_name \notin Falsy
               THEN Pick(plugin.attributes, {"package_name"})
               ELSE IF plugin.meta.version = "2"
               THEN Omit(plugin.attributes, {"parameters"})
               ELSE Omit(plugin.attributes, {"parameter_definitions", "field_types",
                                             "plugin_type", "parameters"})]]

SchedulePlugin(s, plugin) ==
  Issue(TrackBegin(s), plugin.id, "create", PluginRequest(plugin, s.mappings))

\* the item types go out as soon as one plugin is done
PluginsSettledEager(s) ==
  IF s.pc = "plugins" /\ \E op \in PluginOps(s.importDoc) : s.call[op] = "done"
  THEN StartItemTypes(s) ELSE s

PluginsSettled(s) ==
  IF s.pc = "plugins" /\ AllDone(s, PluginOps(s.importDoc))
  THEN StartItemTypes(s) ELSE s

\* Create new plugins
StartPlugins(s) ==
  PluginsSettled(ForEach(SchedulePlugin, [s EXCEPT !.pc = "plugins"],
                         s.importDoc.plugins.entitiesToCreate))

\* rawCreate resolved: if (!isEqual(plugin.attributes.parameters, {})) update
OnPluginCreated(s, plugin) ==
  IF plugin.attributes.parameters # {}
  THEN Issue(s, plugin.id, "update",
             [call |-> "plugins.update", id |-> Get(s.mappings.plugin, plugin.id),
              parameters |-> plugin.attributes.parameters])
  ELSE PluginsSettled(Settle(s, plugin.id))

OnPluginCreateFailed(s, plugin) == Reject(Fail(s, plugin.id), plugin.id)

OnPluginUpdated(s, plugin) == PluginsSettled(Settle(s, plugin.id))

\* the update is not wrapped in a try
OnPluginUpdateRethrown(s, plugin) ==
  Reject(Fail([s EXCEPT !.swallowed = @ \cup {plugin.id}], plugin.id), plugin.id)

\* catch (e) { NOP }
OnPluginUpdateFailed(s, plugin) ==
  PluginsSettled(Settle([s EXCEPT !.swallowed = @ \cup {plugin.id}], plugin.id))

\* --------------------------------------------------------------- preflight

OnSubscribed(s) == [s EXCEPT !.subscription = "open", !.pc = "siteFind"]

OnSubscribeFailed(s) == Reject([s EXCEPT !.firstFailure = "subscribe"], "subscribe")

\* client.site.find() resolved: the tables are built and the plugins go out
OnSiteFound(s, found) ==
  StartPlugins([s EXCEPT !.locales = found, !.mappings = BuildMappings(s.importDoc)])

OnSiteFindFailed(s) == Reject([s EXCEPT !.firstFailure = "site.find"], "site.find")

\* the rest of a reorder loop after an update resolved
OnPositionUpdated(s, i) ==
  LET list == ReorderList(ToCreate(s, i))
  IN IF s.cursor[i] < Len(list)
     THEN [Issue(s, ReorderOp(i), "update", PositionUpdate(list[s.cursor[i] + 1], s.mappings))
             EXCEPT !.cursor[i] = @ + 1]
     ELSE ReorderSettled(Settle(s, ReorderOp(i)))

OnPositionUpdateFailed(s, i) == Reject(Fail(s, ReorderOp(i)), ReorderOp(i))

\* ----------------------------------------------------------------- actions

ToCreateItemTypes == importDoc.itemTypes.entitiesToCreate
ToCreatePlugins == importDoc.plugins.entitiesToCreate

Subscribed == pc = "subscribe" /\ Commit(OnSubscribed(Cur))

SubscribeFailed == pc = "subscribe" /\ Commit(OnSubscribeFailed(Cur))

SiteFound == pc = "siteFind" /\ Commit(OnSiteFound(Cur, site))

SiteFindFailed == pc = "siteFind" /\ Commit(OnSiteFindFailed(Cur))

PluginCreated ==
  \E i \in DOMAIN ToCreatePlugins :
    /\ call[ToCreatePlugins[i].id] = "create"
    /\ Commit(OnPluginCreated(Cur, ToCreatePlugins[i]))

PluginCreateFailed ==
  \E i \in DOMAIN ToCreatePlugins :
    /\ call[ToCreatePlugins[i].id] = "create"
    /\ Commit(OnPluginCreateFailed(Cur, ToCreatePlugins[i]))

PluginUpdated ==
  \E i \in DOMAIN ToCreatePlugins :
    /\ call[ToCreatePlugins[i].id] = "update"
    /\ Commit(OnPluginUpdated(Cur, ToCreatePlugins[i]))

PluginUpdateFailed ==
  \E i \in DOMAIN ToCreatePlugins :
    /\ call[ToCreatePlugins[i].id] = "update"
    /\ Commit(OnPluginUpdateFailed(Cur, ToCreatePlugins[i]))

ItemTypeCreated ==
  \E i \in DOMAIN ToCreateItemTypes :
    /\ call[ToCreateItemTypes[i].entity.id] = "create"
    /\ Commit(OnItemTypeCreated(Cur, ToCreateItemTypes[i].entity.id))

ItemTypeCreateFailed ==
  \E i \in DOMAIN ToCreateItemTypes :
    /\ call[ToCreateItemTypes[i].entity.id] = "create"
    /\ Commit(OnItemTypeFailed(Cur, ToCreateItemTypes[i].entity.id))

FieldsetCreated ==
  \E i \in DOMAIN ToCreateItemTypes : \E k \in DOMAIN ToCreateItemTypes[i].fieldsets :
    /\ call[ToCreateItemTypes[i].fieldsets[k].id] = "create"
    /\ Commit(OnEntityCreated(Cur, i, ToCreateItemTypes[i].fieldsets[k].id))

FieldsetCreateFailed ==
  \E i \in DOMAIN ToCreateItemTypes : \E k \in DOMAIN ToCreateItemTypes[i].fieldsets :
    /\ call[ToCreateItemTypes[i].fieldsets[k].id] = "create"
    /\ Commit(OnEntityFailed(Cur, i, ToCreateItemTypes[i].fieldsets[k].id))

FieldCreated ==
  \E i \in DOMAIN ToCreateItemTypes : \E j \in DOMAIN ToCreateItemTypes[i].fields :
    /\ call[ToCreateItemTypes[i].fields[j].id] = "create"
    /\ Commit(OnEntityCreated(Cur, i, ToCreateItemTypes[i].fields[j].id))

FieldCreateFailed ==
  \E i \in DOMAIN ToCreateItemTypes : \E j \in DOMAIN ToCreateItemTypes[i].fields :
    /\ call[ToCreateItemTypes[i].fields[j].id] = "create"
    /\ Commit(OnEntityFailed(Cur, i, ToCreateItemTypes[i].fields[j].id))

PositionUpdated ==
  \E i \in DOMAIN ToCreateItemTypes :
    /\ call[ReorderOp(i)] = "update"
    /\ Commit(OnPositionUpdated(Cur, i))

PositionUpdateFailed ==
  \E i \in DOMAIN ToCreateItemTypes :
    /\ call[ReorderOp(i)] = "update"
    /\ Commit(OnPositionUpdateFailed(Cur, i))

\* every remote call in flight resolves
NextOk ==
  \/ Subscribed
  \/ SiteFound
  \/ PluginCreated
  \/ PluginUpdated
  \/ ItemTypeCreated
  \/ FieldsetCreated
  \/ FieldCreated
  \/ PositionUpdated

Next ==
  \/ Subscribed
  \/ SubscribeFailed
  \/ SiteFound
  \/ SiteFindFailed
  \/ PluginCreated
  \/ PluginCreateFailed
  \/ PluginUpdated
  \/ PluginUpdateFailed
  \/ ItemTypeCreated
  \/ ItemTypeCreateFailed
  \/ FieldsetCreated
  \/ FieldsetCreateFailed
  \/ FieldCreated
  \/ FieldCreateFailed
  \/ PositionUpdated
  \/ PositionUpdateFailed

Spec == Init /\ [][Next]_vars

\* the runs on the plans of one field
SpecFields == InitFields /\ [][Next]_vars

\* the runs on the plans of InputCases
SpecInputs == InitInputs /\ [][Next]_vars

\* a job is pending: the subscription, the site lookup or a call in flight.
\* This is ENABLED <<NextOk>>_vars, every pending job having a success outcome
\* that changes the counters or the position of the run
Busy ==
  \/ pc \in {"subscribe", "siteFind"}
  \/ \E op \in DOMAIN call : call[op] \in {"create", "update"}

\* WF_vars(NextOk) written out, with Busy for ENABLED <<NextOk>>_vars: the
\* event loop runs every pending job, so a run does not stop while one is left
Fairness == []<>(~Busy) \/ []<><<NextOk>>_vars

\* the runs in which no remote call fails and every call in flight settles
SpecOk == Init /\ [][NextOk]_vars /\ Fairness

\* -------------------------------------------------------------- properties

Issued(op) == sent[op] # <<>>
Unsettled(op) == call[op] \in {"create", "update"}
ScheduledOps == {op \in DOMAIN call : call[op] # "idle"}
SettledOps == {op \in DOMAIN call : call[op] \in {"done", "failed"}}
CreateOps == PluginOps(sourceDoc) \cup ItemTypeOps(sourceDoc)
             \cup FieldsetOps(sourceDoc) \cup FieldOps(sourceDoc)

\* the source ids of a class that the plan reuses
ReusedIds(class) ==
  IF class = "itemType" THEN DOMAIN sourceDoc.itemTypes.idsToReuse
  ELSE IF class = "plugin" THEN DOMAIN sourceDoc.plugins.idsToReuse
  ELSE {}

\* the plan entity exists at the destination: reused, or its create call succeeded
Exists(class, src) ==
  \/ src \in ReusedIds(class)
  \/ call[src] \in (IF class = "plugin" THEN {"update", "done"} ELSE {"done"})

\* every plan entity of the class that has this destination id exists
Resolved(class, id) ==
  \A src \in DOMAIN mappings[class] : mappings[class][src] = id => Exists(class, src)

\* the lists of item type ids a field payload carries
PayloadLists(attributes) ==
  {attributes.validators[v] : v \in Range(ApplicableValidators(attributes.field_type))}

\* every entity a fields.rawCreate request refers to exists
FieldRequestResolved(r) ==
  LET a == r.data.attributes
  IN /\ Resolved("itemType", r.itemTypeId)
     /\ r.data.fieldset # Null => Resolved("fieldset", r.data.fieldset)
     /\ \A list \in PayloadLists(a) : \A id \in Range(list) : Resolved("itemType", id)
     /\ Resolved("plugin", a.appearance.editor)
     /\ \A addon \in Range(a.appearance.addons) : Resolved("plugin", addon.id)
     /\ "slug_title_field" \in DOMAIN a.validators
          => Resolved("field", a.validators["slug_title_field"])

\* C1: once a create call for a fieldset or a field is out, every entity of the
\* plan its payload refers to (owning item type, fieldset, item types of the link
\* and block validators, plugins of editor and addons, title field of a slug) is
\* reused or was created successfully
C1_ReferencesExist ==
  /\ \A op \in FieldsetOps(sourceDoc) :
       Issued(op) => Resolved("itemType", sent[op][1].itemTypeId)
  /\ \A op \in FieldOps(sourceDoc) : Issued(op) => FieldRequestResolved(sent[op][1])

\* a slug field goes out with a mapped title field and fieldset, next to a link
\* field whose editor and addons are plugins of the plan
C1_Witness ==
  \E f, g \in FieldOps(sourceDoc) :
    /\ call[f] = "create"
    /\ "slug_title_field" \in DOMAIN sent[f][1].data.attributes.validators
    /\ sent[f][1].data.attributes.validators["slug_title_field"] = Get(mappings.field, g)
    /\ sent[f][1].data.fieldset \in Range(mappings.fieldset)
    /\ call[g] = "done"
    /\ "p1" \in PluginOps(sourceDoc)
    /\ sent[g][1].data.attributes.appearance.editor = mappings.plugin["p1"]
    /\ Len(sent[g][1].data.attributes.appearance.addons) >= 1

\* the fields of item type i that are slugs, or that are not
FieldIdsWhere(i, slug) ==
  {sourceDoc.itemTypes.entitiesToCreate[i].fields[j].id :
     j \in Range(FieldsWhere(sourceDoc.itemTypes.entitiesToCreate[i], slug))}

\* C2: no create call for a slug field is out unless the create call of every
\* non-slug field of the same item type has settled successfully
C2_SlugAfterNonSlug ==
  \A i \in DOMAIN sourceDoc.itemTypes.entitiesToCreate :
    \A f \in FieldIdsWhere(i, TRUE) :
      Issued(f) => \A g \in FieldIdsWhere(i, FALSE) : call[g] = "done"

\* a slug field goes out in an item type with two non-slug fields
C2_Witness ==
  \E i \in DOMAIN sourceDoc.itemTypes.entitiesToCreate :
    /\ Cardinality(FieldIdsWhere(i, FALSE)) >= 2
    /\ \E f \in FieldIdsWhere(i, TRUE) : call[f] = "create"

\* C3: no item type create call is in flight with a plugin operation unsettled,
\* no fieldset or field create call with an item type create call unsettled, no
\* position update with a fieldset or field create call unsettled
C3_PhasesApart ==
  /\ (\E t \in ItemTypeOps(sourceDoc) : Unsettled(t))
       => \A p \in PluginOps(sourceDoc) : ~Unsettled(p)
  /\ (\E e \in FieldsetOps(sourceDoc) \cup FieldOps(sourceDoc) : Unsettled(e))
       => \A t \in ItemTypeOps(sourceDoc) : ~Unsettled(t)
  /\ (\E r \in ReorderOps(sourceDoc) : Unsettled(r))
       => \A e \in FieldsetOps(sourceDoc) \cup FieldOps(sourceDoc) : ~Unsettled(e)

\* a position update is in flight in a run that created two plugins, one with a
\* parameters update, and two item types
C3_Witness ==
  /\ Cardinality(PluginOps(sourceDoc)) >= 2
  /\ Cardinality(ItemTypeOps(sourceDoc)) >= 2
  /\ \E r \in ReorderOps(sourceDoc) : call[r] = "update"

\* the tracked operations of the phases after the phase of an operation
LaterOps(op) ==
  IF op \in PluginOps(sourceDoc) THEN DOMAIN call \ PluginOps(sourceDoc)
  ELSE IF op \in ItemTypeOps(sourceDoc)
  THEN FieldsetOps(sourceDoc) \cup FieldOps(sourceDoc) \cup ReorderOps(sourceDoc)
  ELSE IF op \in ReorderOps(sourceDoc) THEN {}
  ELSE ReorderOps(sourceDoc)

\* C4: once a create call or a position update has failed, importSchema has
\* rejected with the first such failure and no operation of a later phase has
\* been started
C4_FirstFailureHalts ==
  firstFailure \in DOMAIN call =>
    /\ pc = "rejected"
    /\ rejection = firstFailure
    /\ \A op \in LaterOps(firstFailure) : call[op] = "idle" /\ sent[op] = <<>>

\* a field create failed, the function of another item type ran to its end, and
\* a second create call failed after the first
C4_Witness ==
  /\ firstFailure \in FieldOps(sourceDoc)
  /\ \E i \in DOMAIN itemPc : itemPc[i] = "done"
  /\ \E op \in Ops(sourceDoc) : op # firstFailure /\ call[op] = "failed"

\* C5: when importSchema has ended, resolved or rejected, an events subscription
\* that was opened is closed
C5_Unsubscribed ==
  (pc \in {"resolved", "rejected"} /\ subscription # "none") => subscription = "closed"

\* the pairs of a job follow one another, each one increment after the last
Chained(before, pairs) ==
  \A k \in DOMAIN pairs :
    LET last == IF k = 1 THEN before ELSE pairs[k - 1]
    IN \/ pairs[k] = <<last[1] + 1, last[2]>>
       \/ pairs[k] = <<last[1], last[2] + 1>>

ProgressInv ==
  /\ finished \in 0..total
  /\ total = Cardinality(ScheduledOps)
  /\ finished = Cardinality(SettledOps)
  /\ emitted # <<>> => emitted[Len(emitted)] = <<total, finished>>

ProgressStep ==
  /\ total' >= total
  /\ finished' >= finished
  /\ total' - total = Cardinality(ScheduledOps' \ ScheduledOps)
  /\ finished' - finished = Cardinality(SettledOps' \ SettledOps)
  /\ Len(emitted') = (total' - total) + (finished' - finished)
  /\ Chained(<<total, finished>>, emitted')

\* C6: 0 <= finished <= total; total counts the tracked operations scheduled and
\* finished those settled, successfully or not; neither decreases; each pair
\* passed to updateProgress is one increment after the pair before it and the
\* last one is the current pair
C6_Progress == []ProgressInv /\ [][ProgressStep]_vars

\* a tracked operation has failed and was counted while another is in flight
C6_Witness ==
  /\ \E op \in DOMAIN call : call[op] = "failed"
  /\ \E op \in DOMAIN call : Unsettled(op)
  /\ finished >= 2
  /\ emitted = <<<<total, finished>>>>

\* C7: a plugin whose parameters update failed is done, not failed; importSchema
\* did not reject with it; and once every plugin is done the item types are out
C7_UpdateFailureSwallowed ==
  \A p \in swallowed :
    /\ call[p] = "done"
    /\ firstFailure # p
    /\ rejection # p
    /\ (\A q \in PluginOps(sourceDoc) : call[q] = "done")
         => /\ pc # "plugins"
            /\ \A t \in ItemTypeOps(sourceDoc) : call[t] # "idle"

\* the parameters update of a plugin failed and the item types are in flight
C7_Witness ==
  /\ swallowed # {}
  /\ ItemTypeOps(sourceDoc) # {}
  /\ \A t \in ItemTypeOps(sourceDoc) : call[t] = "create"

IsCreate(request) ==
  request.call \in {"plugins.rawCreate", "itemTypes.rawCreate",
                    "fieldsets.rawCreate", "fields.rawCreate"}

\* importSchema resolved after one create call per entity to create
ResolvedOnce ==
  pc = "resolved" =>
    /\ finished = total
    /\ \A op \in CreateOps : Len(SelectSeq(sent[op], IsCreate)) = 1

\* C8: when every remote call settles successfully importSchema resolves, and
\* then one create call was issued for each plugin, item type, fieldset and
\* field to create, and finished = total
C8_ResolvesOnce == <>(pc = "resolved") /\ []ResolvedOnce

\* importSchema resolved on a plan with plugins, fieldsets and fields
C8_Witness ==
  /\ pc = "resolved"
  /\ Cardinality(PluginOps(sourceDoc)) >= 2
  /\ FieldsetOps(sourceDoc) # {}
  /\ FieldOps(sourceDoc) # {}

\* the create calls sent for a set of operations carry different ids
DistinctIds(ops) ==
  LET issued == {op \in ops : Issued(op)}
  IN Cardinality({sent[op][1].data.id : op \in issued}) = Cardinality(issued)

\* C9: the ids under which the plugins, item types, fieldsets and fields are
\* created differ within each class, and differ from the ids the plan reuses in
\* the class
C9_DistinctIds ==
  /\ DistinctIds(PluginOps(sourceDoc))
  /\ DistinctIds(ItemTypeOps(sourceDoc))
  /\ DistinctIds(FieldsetOps(sourceDoc))
  /\ DistinctIds(FieldOps(sourceDoc))
  /\ \A op \in PluginOps(sourceDoc) :
       Issued(op) => sent[op][1].data.id \notin Range(sourceDoc.plugins.idsToReuse)
  /\ \A op \in ItemTypeOps(sourceDoc) :
       Issued(op) => sent[op][1].data.id \notin Range(sourceDoc.itemTypes.idsToReuse)

\* two plugins, two item types and two fields of one item type were sent
C9_Witness ==
  /\ Cardinality({op \in PluginOps(sourceDoc) : Issued(op)}) >= 2
  /\ Cardinality({op \in ItemTypeOps(sourceDoc) : Issued(op)}) >= 2
  /\ \E i \in DOMAIN sourceDoc.itemTypes.entitiesToCreate :
       Cardinality({f \in FieldIdsWhere(i, FALSE) : Issued(f)}) >= 2

\* a list of source ids restricted to the keys of a table and mapped, in order
Restricted(list, table) ==
  LET isKey(id) == id \in DOMAIN table
      kept == SelectSeq(list, isKey)
  IN [k \in DOMAIN kept |-> table[kept[k]]]

\* C10: the create call of a field goes out whatever its validators refer to, and
\* each link or block validator of its payload is the source list restricted to
\* the keys of the item type table, mapped, in source order
C10_ValidatorsRestricted ==
  \A i \in DOMAIN sourceDoc.itemTypes.entitiesToCreate :
    \A j \in DOMAIN sourceDoc.itemTypes.entitiesToCreate[i].fields :
      LET field == sourceDoc.itemTypes.entitiesToCreate[i].fields[j]
      IN /\ (itemPc[i] \in {"nonSlug", "slug", "done"} /\ field.attributes.field_type # "slug")
              => Issued(field.id)
         /\ Issued(field.id) =>
              \A v \in Range(ApplicableValidators(field.attributes.field_type)) :
                sent[field.id][1].data.attributes.validators[v]
                  = Restricted(field.attributes.validators[v], mappings.itemType)

\* a structured text field went out whose links validator lost an id outside the
\* plan and kept a created and a reused item type, in order
C10_Witness ==
  \E f \in FieldOps(sourceDoc) :
    /\ Issued(f)
    /\ sourceDoc.itemTypes.entitiesToCreate[1].fields[1].attributes.field_type
         = "structured_text"
    /\ sourceDoc.itemTypes.entitiesToCreate[1].fields[1].attributes.validators
         ["structured_text_links"] = <<"itR", "itX">>
    /\ sourceDoc.itemTypes.entitiesToCreate[1].fields[1].attributes.validators
         ["structured_text_blocks"] = <<"itX", "it1">>
    /\ sent[f][1].data.attributes.validators["structured_text_links"]
         = <<mappings.itemType["itR"]>>

\* the fields of the plan as importSchema received them
SourceFields ==
  UNION {Range(sourceDoc.itemTypes.entitiesToCreate[i].fields) :
           i \in DOMAIN sourceDoc.itemTypes.entitiesToCreate}

\* the attributes in the create call of a field
Created(field) == sent[field.id][1].data.attributes

\* C11: the default_value in the create call of a localized field has one entry
\* per locale that client.site.find() returned and no other, whatever entries the
\* source default has
C11_DefaultKeys ==
  \A field \in SourceFields :
    (field.attributes.localized /\ Issued(field.id)) =>
      /\ locales = site
      /\ DOMAIN Created(field).default_value = Range(locales)

\* a localized field with defaults for en and it went out to a destination of
\* locales it and fr
C11_Witness ==
  \E field \in SourceFields :
    /\ field.attributes.localized
    /\ DOMAIN field.attributes.default_value = {"en", "it"}
    /\ site = <<"it", "fr">>
    /\ Issued(field.id)
    /\ call[field.id] = "done"

\* a second importField on the field object of the plan would send what the
\* first one sent
SameOnRerun(i, j) ==
  LET field == importDoc.itemTypes.entitiesToCreate[i].fields[j]
      again == FieldPayload(field, locales, mappings)
  IN /\ again.itemTypeId = sent[field.id][1].itemTypeId
     /\ again.data = sent[field.id][1].data

\* C12: once importField has rewritten a field, the field object of the plan
\* still has the validators and the appearance it came with, and rewriting it
\* again against the same tables gives the payload that was sent
C12_RewriteIdempotent ==
  \A i \in DOMAIN sourceDoc.itemTypes.entitiesToCreate :
    \A j \in DOMAIN sourceDoc.itemTypes.entitiesToCreate[i].fields :
      LET source == sourceDoc.itemTypes.entitiesToCreate[i].fields[j]
          field == importDoc.itemTypes.entitiesToCreate[i].fields[j]
      IN Issued(source.id) =>
           /\ field.attributes.validators = source.attributes.validators
           /\ field.attributes.appearance = source.attributes.appearance
           /\ SameOnRerun(i, j)

\* the fieldsets and fields of item type i as the plan came with them
SourceEntities(i) ==
  sourceDoc.itemTypes.entitiesToCreate[i].fieldsets
  \o sourceDoc.itemTypes.entitiesToCreate[i].fields

\* the k-th position update of item type i sets the source position of an
\* entity, and the entities of smaller source position were updated before it
InPositionOrder(i, k) ==
  LET updates == sent[ReorderOp(i)]
  IN \E e \in Range(SourceEntities(i)) :
       /\ updates[k] = PositionUpdate(e, mappings)
       /\ \A o \in Range(SourceEntities(i)) :
            o.attributes.position < e.attributes.position
              => \E h \in 1..(k - 1) : updates[h] = PositionUpdate(o, mappings)

\* C13: the position updates of an item type go out one at a time, each one
\* after the updates of the entities of smaller source position have settled,
\* each setting the source position of its entity; an item type of at most one
\* fieldset plus field gets none
C13_AscendingUpdates ==
  \A i \in DOMAIN sourceDoc.itemTypes.entitiesToCreate :
    LET updates == sent[ReorderOp(i)]
    IN /\ Len(SourceEntities(i)) <= 1 => updates = <<>>
       /\ Len(updates) = cursor[i]
       /\ call[ReorderOp(i)] = "done" => Len(updates) \in {0, Len(SourceEntities(i))}
       /\ \A k \in DOMAIN updates : InPositionOrder(i, k)

\* the position updates of item type i that are out and have not settled: the
\* loop awaits its cursor-th update, the ones before it have settled
UpdatesInFlight(i) ==
  IF call[ReorderOp(i)] = "update" THEN Len(sent[ReorderOp(i)]) - (cursor[i] - 1) ELSE 0

\* C14 as stated: at no time are two position updates in flight, of the same
\* item type or of different ones
C14_OneUpdateInFlight ==
  Cardinality({i \in DOMAIN sourceDoc.itemTypes.entitiesToCreate :
                 UpdatesInFlight(i) > 0}) <= 1
  /\ \A i \in DOMAIN sourceDoc.itemTypes.entitiesToCreate : UpdatesInFlight(i) <= 1

\* C14, amended: at no time are two position updates of the same item type in
\* flight; the loops of different item types run side by side
C14_OneUpdatePerItemType ==
  \A i \in DOMAIN sourceDoc.itemTypes.entitiesToCreate : UpdatesInFlight(i) <= 1

\* two item types each have a position update in flight, one of them its second
C14_Witness ==
  \E i, h \in DOMAIN sourceDoc.itemTypes.entitiesToCreate :
    /\ i # h
    /\ UpdatesInFlight(i) = 1
    /\ UpdatesInFlight(h) = 1
    /\ cursor[h] = 2

\* client.site.find() has resolved: the tables are built and the plugins phase
\* has been entered
PastPreflight ==
  pc \notin {"subscribe", "siteFind"} /\ firstFailure \notin {"subscribe", "site.find"}

\* C15: once Preflight is over the four identifier tables are the ones it built
\* from the plan, and no job of the phases after it changes any of them
C15_TablesFrozen ==
  /\ [](PastPreflight => mappings = BuildMappings(sourceDoc))
  /\ [][PastPreflight => mappings' = mappings]_vars

\* position updates are in flight after plugins, fieldsets and fields were
\* created against the tables of Preflight
C15_Witness ==
  /\ pc = "reorder"
  /\ PluginOps(sourceDoc) # {}
  /\ FieldsetOps(sourceDoc) # {}
  /\ \E f \in FieldOps(sourceDoc) : call[f] = "done"
  /\ DOMAIN mappings.field = FieldOps(sourceDoc)
  /\ DOMAIN mappings.fieldset = FieldsetOps(sourceDoc)

\* C16: a field whose slug_title_field names a field that is not a key of the
\* field table gets no create call, and no create call carries a title field
\* that is not a destination id of the field table
C16_TitleMissSurfaced ==
  \A field \in SourceFields :
    ("slug_title_field" \in DOMAIN field.attributes.validators /\ PastPreflight) =>
      /\ ~Has(mappings.field, field.attributes.validators["slug_title_field"])
           => ~Issued(field.id)
      /\ Issued(field.id)
           => Created(field).validators["slug_title_field"] \in Range(mappings.field)

\* what a job does to the create call of field f that is in flight: it leaves
\* it in flight as sent, or it is its settlement, which counts it as finished
\* and reports the new pair first
StaysOrSettles(f) ==
  \/ call'[f] = "create" /\ sent'[f] = sent[f]
  \/ /\ call'[f] \in {"done", "failed"}
     /\ sent'[f] = sent[f]
     /\ finished' >= finished + 1
     /\ pc = "rejected" => finished' = finished + 1
     /\ emitted' # <<>>
     /\ emitted'[1] = <<total, finished + 1>>

\* C17: the create call of a field that is in flight is never cancelled by the
\* failure of another field or by the rejection of importSchema: it stays in
\* flight until it settles, and its settlement increments finished and emits
\* progress, after the rejection as before it
C17_SiblingsSettle ==
  [][\A f \in FieldOps(sourceDoc) : call[f] = "create" => StaysOrSettles(f)]_vars

\* importSchema rejected with the failure of a non-slug field; a sibling of the
\* same group settled after that (it failed too, second) and was counted
C17_Witness ==
  \E i \in DOMAIN sourceDoc.itemTypes.entitiesToCreate :
    \E f, g \in FieldIdsWhere(i, FALSE) :
      /\ f # g
      /\ pc = "rejected"
      /\ rejection = f
      /\ firstFailure = f
      /\ call[g] = "failed"
      /\ finished = total
      /\ emitted = <<<<total, finished>>>>

\* the addons of a source field that the plugin table knows, mapped, in order
MappedAddons(field) ==
  LET known(addon) == Has(mappings.plugin, addon.id)
      kept == SelectSeq(field.attributes.appearance.addons, known)
  IN [k \in DOMAIN kept |-> [kept[k] EXCEPT !.id = mappings.plugin[@]]]

\* C18: whatever the editor of a field, the addons of its create call are the
\* addons of the source field whose plugin is a key of the plugin table, each
\* under the mapped plugin id, in source order
C18_AddonsRestricted ==
  \A field \in SourceFields :
    Issued(field.id) => Created(field).appearance.addons = MappedAddons(field)

\* C19: in the create call of a localized field the default of each destination
\* locale is the source default of that locale if the source has an entry for
\* it, whatever the value, and null if it has none
C19_DefaultsCopied ==
  \A field \in SourceFields :
    (field.attributes.localized /\ Issued(field.id)) =>
      \A locale \in Range(locales) :
        Created(field).default_value[locale] =
          (IF locale \in DOMAIN field.attributes.default_value
           THEN field.attributes.default_value[locale] ELSE Null)

\* the names of the attributes the selection rule sends for a plugin
SelectedAttributes(plugin) ==
  IF plugin.attributes.package_name \notin Falsy THEN {"package_name"}
  ELSE IF plugin.meta.version = "2" THEN DOMAIN plugin.attributes \ {"parameters"}
  ELSE DOMAIN plugin.attributes
         \ {"parameter_definitions", "field_types", "plugin_type", "parameters"}

\* the requests of a plugin are its create call and then, if any, one update of
\* its parameters; the update is out only once the create call has succeeded
UpdateFollowsCreate(plugin) ==
  LET requests == sent[plugin.id]
      update == [call |-> "plugins.update", id |-> mappings.plugin[plugin.id],
                 parameters |-> plugin.attributes.parameters]
  IN /\ requests[1].call = "plugins.rawCreate"
     /\ call[plugin.id] = "create" => Len(requests) = 1
     /\ call[plugin.id] = "failed" => Len(requests) = 1
     /\ call[plugin.id] = "update" => requests = <<requests[1], update>>
     /\ call[plugin.id] = "done" =>
          requests = (IF plugin.attributes.parameters # {}
                      THEN <<requests[1], update>> ELSE <<requests[1]>>)
     /\ call[plugin.id] = "update" => plugin.attributes.parameters # {}

\* C20: the create call of a plugin carries package_name alone if it is set,
\* else every attribute but parameters for version 2, else every attribute but
\* parameter_definitions, field_types, plugin_type and parameters; the update of
\* the parameters goes out after the create call succeeded, and exactly for the
\* plugins whose parameters are not empty
C20_PluginPayload ==
  \A plugin \in Range(sourceDoc.plugins.entitiesToCreate) :
    Issued(plugin.id) =>
      /\ sent[plugin.id][1].data.attributes
           = [k \in SelectedAttributes(plugin) |-> plugin.attributes[k]]
      /\ sent[plugin.id][1].data.id = mappings.plugin[plugin.id]
      /\ UpdateFollowsCreate(plugin)

\* a version 2 plugin without a package and with parameters is done, after its
\* create call and its update
C20_Witness ==
  \E plugin \in Range(sourceDoc.plugins.entitiesToCreate) :
    /\ plugin.attributes.package_name = Null
    /\ plugin.meta.version = "2"
    /\ plugin.attributes.parameters # {}
    /\ call[plugin.id] = "done"
    /\ Len(sent[plugin.id]) = 2
    /\ "plugin_type" \in DOMAIN sent[plugin.id][1].data.attributes
====
